---- MODULE Spec2Model ----
(***************************************************************************)
(* A state-machine model of src/wifideauth.py: the WiFiAuditor object, its *)
(* main flow run()/main(), the signal handler, cleanup() and the row loop  *)
(* of parse_csv_networks().                                                *)
(*                                                                         *)
(* Control is a stack of program positions: the bottom frame is the main   *)
(* flow, a cleanup() call pushes a frame, and a delivered signal pushes    *)
(* the handler's frame on top of whatever is running (Python runs a signal *)
(* handler in the main thread, between two bytecodes of the interrupted    *)
(* code, and an exception the handler raises is raised at that point).     *)
(***************************************************************************)
EXTENDS Integers, Naturals, Sequences, FiniteSets, TLC

VARIABLES
    stack,                      \* program positions, the running frame last
    status,                     \* "running", or how the process ended
    scanning,                   \* self.scanning
    hacknic,                    \* self.hacknic ("none" is None)
    monitor_process,            \* self.monitor_process ("none" is None, else "popen")
    active_wireless_networks,   \* self.active_wireless_networks
    target,                     \* run()'s local target (<<>> is None, else <<row>>)
    confirm,                    \* perform_deauth_attack's local confirm
    ridx,                       \* the row index of the rendering loops
    parse_in,                   \* the files one parse pass reads, in glob order
    fi, ri,                     \* parse pass: file index and row index
    temp_networks,              \* parse pass: temp_networks
    seen_networks,              \* parse pass: seen_networks
    rows_read,                  \* parse pass: the rows the reader has yielded
    sudo,                       \* 'SUDO_UID' in os.environ
    cap,                        \* the capture process: "none", "running", "dead"
    monitorOn,                  \* the interface is in monitor mode
    nm,                         \* the NetworkManager service is running
    files,                      \* the *.csv files of the working directory
    archived,                   \* file name -> number of times moved to backup/
    backup_ok,                  \* files can be moved into backup/
    issued,                     \* the external commands issued so far
    logged,                     \* the log entries written so far (by kind)
    sigs,                       \* signals delivered so far
    cleanups,                   \* cleanup() calls begun so far
    faults,                     \* external commands and file moves that failed
    hist                        \* facts recorded for the properties

vars == << stack, status, scanning, hacknic, monitor_process,
           active_wireless_networks, target, confirm, ridx,
           parse_in, fi, ri, temp_networks, seen_networks, rows_read,
           sudo, cap, monitorOn, nm, files, archived, backup_ok,
           issued, logged, sigs, cleanups, faults, hist >>

----------------------------------------------------------------------------
(* Bounds of the model *)

\* rows in the files of one parse pass of SpecParse
MaxRows == 3
\* signals delivered in one run
MaxSignals == 2
\* independent failures of the environment in one run: an external command
\* that fails, or backup/ becoming unusable
MaxFaults == 1

----------------------------------------------------------------------------
(* Strings.  A field of a CSV row is a sequence of tokens; the token WS is *)
(* one whitespace character, every other token stands for a run of         *)
(* non-blank characters.  str.strip() removes the blanks at both ends.     *)

WS == " "

RECURSIVE lstrip(_)
lstrip(s) == IF s # <<>> /\ Head(s) = WS THEN lstrip(Tail(s)) ELSE s

RECURSIVE rstrip(_)
rstrip(s) == IF s # <<>> /\ s[Len(s)] = WS
             THEN rstrip(SubSeq(s, 1, Len(s) - 1)) ELSE s

strip(s) == rstrip(lstrip(s))

\* the positions in fieldnames of the columns whose value the code trims
ColChannel == 4
ColESSID == 14

\* csv.DictReader: a row with fewer values than fieldnames has None for the
\* missing keys; row.get(key, "") then returns None, and None.strip() raises.
IsNone(row, col) == row.ncols < col

BSSID_HEADER == <<"BSSID">>
STATION_MAC == <<"Station", WS, "MAC">>

\* f"{bssid}|{essid}"
network_id(bssid, essid) == bssid \o <<"|">> \o essid

----------------------------------------------------------------------------
(* Control helpers *)

Top == stack[Len(stack)]
SetTop(pc) == [stack EXCEPT ![Len(stack)] = pc]
Running == status = "running" /\ stack # <<>>

\* the *.csv files the model knows: one left by an earlier use of the
\* directory, and the snapshot the capture writes (prefix "file", line 223)
FileNames == { "old.csv", "file-01.csv" }

----------------------------------------------------------------------------
(* Input rows.  The columns the code reads are kept; ncols is the number   *)
(* of values the CSV line holds.                                           *)

Row(n, b, ch, pw, es) ==
    [ncols |-> n, BSSID |-> b, channel |-> ch, Power |-> pw, ESSID |-> es]

MacA == <<"AA:BB:CC:DD:EE:01">>
MacB == <<"AA:BB:CC:DD:EE:02">>
MacC == <<"11:22:33:44:55:66">>

\* network rows without and with the blank airodump-ng writes after a comma
NetA45 == Row(15, MacA, <<"6">>, <<"-45">>, <<"CafeNet">>)
NetA60 == Row(15, MacA, <<"6">>, <<"-60">>, <<"CafeNet">>)
PadA45 == Row(15, MacA, <<WS, "6">>, <<WS, "-45">>, <<WS, "CafeNet">>)
PadA60 == Row(15, MacA, <<WS, "6">>, <<WS, "-60">>, <<WS, "CafeNet">>)
NetB70 == Row(15, MacB, <<WS, "6">>, <<WS>>, <<WS, "CafeNet">>)
\* the header of the network table, and rows the validity test discards
HeaderRow == Row(15, BSSID_HEADER, <<WS, "channel">>, <<WS, "Power">>, <<WS, "ESSID">>)
NoEssid == Row(15, MacA, <<WS, "11">>, <<WS, "-45">>, <<WS>>)
NoChannel == Row(15, MacB, <<WS>>, <<WS, "-45">>, <<WS, "Hidden">>)
BlankId == Row(15, <<WS>>, <<WS, "6">>, <<WS, "-45">>, <<WS, "CafeNet">>)
\* the station table: its header (the sentinel), a station row of 7 values,
\* and a station row whose probed ESSIDs fill the values up to the 14th
StationHeader == Row(7, STATION_MAC, <<WS, "Power">>, <<>>, <<>>)
StationShort == Row(7, MacC, <<WS, "-50">>, <<>>, <<>>)
StationLong == Row(14, MacC, <<WS, "-50">>, <<"probe3">>, <<"probe8">>)

RowUniverse == { NetA45, NetA60, PadA45, PadA60, NetB70, HeaderRow, NoEssid,
                 NoChannel, BlankId, StationHeader, StationShort, StationLong }

SeqsUpTo(S, n) == UNION { [1..k -> S] : k \in 0..n }

\* one pass reads two files holding at most MaxRows rows together
ParseInputs ==
    { << SubSeq(x[1], 1, x[2]), SubSeq(x[1], x[2] + 1, Len(x[1])) >> :
        x \in { y \in SeqsUpTo(RowUniverse, MaxRows) \X (0..MaxRows) :
                  y[2] <= Len(y[1]) } }

\* what the Display Loop finds in the snapshot file while the capture runs
ScanInputs ==
    { << <<HeaderRow>> >>,
      << <<HeaderRow, PadA45, NetB70, StationHeader, StationShort>> >> }

----------------------------------------------------------------------------
(* parse_csv_networks: the loop over files and rows, one row per step *)

\* the row is the header, the station sentinel or has no identity (line 257)
SkippedId(bssid) == bssid = <<>> \/ bssid \in {BSSID_HEADER, STATION_MAC}

\* the index of the first record of temp_networks whose stored BSSID and
\* ESSID equal the trimmed ones of the row (lines 276-278), 0 when none does
FirstMatch(nets, bssid, essid) ==
    LET hits == { i \in 1..Len(nets) :
                    nets[i].BSSID = bssid /\ nets[i].ESSID = essid }
    IN  IF hits = {} THEN 0 ELSE CHOOSE i \in hits : \A j \in hits : i <= j

\* AcceptRow without the test of the channel
AcceptRow_essid_only(nets, seen, row, bssid, essid, channel) ==
    IF essid # <<>>
    THEN IF network_id(bssid, essid) \notin seen
         THEN << Append(nets, row), seen \cup {network_id(bssid, essid)} >>
         ELSE << nets, seen >>
    ELSE << nets, seen >>

\* lines 266-281: the new value of <<temp_networks, seen_networks>>
AcceptRow(nets, seen, row, bssid, essid, channel) ==
    IF essid # <<>> /\ channel # <<>>
    THEN IF network_id(bssid, essid) \notin seen
         THEN << Append(nets, row), seen \cup {network_id(bssid, essid)} >>
         ELSE LET i == FirstMatch(nets, bssid, essid)
              IN  IF i = 0 THEN << nets, seen >>
                  ELSE << [nets EXCEPT ![i] = row], seen >>
    ELSE << nets, seen >>

ParseUnchanged ==
    UNCHANGED << status, scanning, hacknic, monitor_process, target, confirm,
                 ridx, parse_in, sudo, cap, monitorOn, nm, files, archived,
                 backup_ok, issued, sigs, cleanups, faults, hist >>

\* a row loop in which the error of one row ends the whole pass
parse_row_abort ==
    /\ Running /\ Top = "p_row"
    /\ fi <= Len(parse_in) /\ ri <= Len(parse_in[fi])
    /\ LET row == parse_in[fi][ri]
           bssid == strip(row.BSSID)
       IN  /\ rows_read' = Append(rows_read, row)
           /\ IF SkippedId(bssid)
              THEN \* continue
                   /\ ri' = ri + 1
                   /\ UNCHANGED << fi, temp_networks, seen_networks, logged >>
              ELSE IF bssid = STATION_MAC
              THEN \* break (line 261)
                   /\ fi' = fi + 1 /\ ri' = 1
                   /\ UNCHANGED << temp_networks, seen_networks, logged >>
              ELSE IF IsNone(row, ColESSID) \/ IsNone(row, ColChannel)
              THEN \* the error ends the pass
                   /\ fi' = Len(parse_in) + 1 /\ ri' = 1
                   /\ logged' = logged \cup {"Error parsing CSV"}
                   /\ UNCHANGED << temp_networks, seen_networks >>
              ELSE LET r == AcceptRow(temp_networks, seen_networks, row, bssid,
                                      strip(row.ESSID), strip(row.channel))
                   IN  /\ temp_networks' = r[1]
                       /\ seen_networks' = r[2]
                       /\ ri' = ri + 1
                       /\ UNCHANGED << fi, logged >>
    /\ UNCHANGED << stack, active_wireless_networks >>
    /\ ParseUnchanged

\* one iteration of "for row in csv_reader" (lines 253-281), with the
\* except clause of line 283 when the row raises
parse_row ==
    /\ Running /\ Top = "p_row"
    /\ fi <= Len(parse_in) /\ ri <= Len(parse_in[fi])
    /\ LET row == parse_in[fi][ri]
           bssid == strip(row.BSSID)
       IN  /\ rows_read' = Append(rows_read, row)
           /\ IF SkippedId(bssid)
              THEN \* continue
                   /\ ri' = ri + 1
                   /\ UNCHANGED << fi, temp_networks, seen_networks, logged >>
              ELSE IF bssid = STATION_MAC
              THEN \* break (line 261)
                   /\ fi' = fi + 1 /\ ri' = 1
                   /\ UNCHANGED << temp_networks, seen_networks, logged >>
              ELSE IF IsNone(row, ColESSID) \/ IsNone(row, ColChannel)
              THEN \* None.strip() raises AttributeError: logged, file left
                   /\ fi' = fi + 1 /\ ri' = 1
                   /\ logged' = logged \cup {"Error parsing CSV"}
                   /\ UNCHANGED << temp_networks, seen_networks >>
              ELSE LET r == AcceptRow(temp_networks, seen_networks, row, bssid,
                                      strip(row.ESSID), strip(row.channel))
                   IN  /\ temp_networks' = r[1]
                       /\ seen_networks' = r[2]
                       /\ ri' = ri + 1
                       /\ UNCHANGED << fi, logged >>
    /\ UNCHANGED << stack, active_wireless_networks >>
    /\ ParseUnchanged

\* the reader of one file is exhausted: the next file of the glob
parse_next_file ==
    /\ Running /\ Top = "p_row"
    /\ fi <= Len(parse_in) /\ ri > Len(parse_in[fi])
    /\ fi' = fi + 1 /\ ri' = 1
    /\ UNCHANGED << stack, active_wireless_networks, temp_networks,
                    seen_networks, rows_read, logged >>
    /\ ParseUnchanged

\* line 287: self.active_wireless_networks = temp_networks
parse_assign ==
    /\ Running /\ Top = "p_row"
    /\ fi > Len(parse_in)
    /\ active_wireless_networks' = temp_networks
    /\ stack' = SetTop("scan_clear")
    /\ parse_in' = <<>> /\ fi' = 1 /\ ri' = 1
    /\ temp_networks' = <<>> /\ seen_networks' = {} /\ rows_read' = <<>>
    /\ UNCHANGED logged
    /\ UNCHANGED << status, scanning, hacknic, monitor_process, target, confirm,
                    ridx, sudo, cap, monitorOn, nm, files, archived,
                    backup_ok, issued, sigs, cleanups, faults, hist >>

InitParse ==
    /\ stack = <<"p_row">> /\ status = "running"
    /\ scanning = TRUE /\ hacknic = "wlan0" /\ monitor_process = "popen"
    /\ active_wireless_networks = <<>>
    /\ target = <<>> /\ confirm = <<>> /\ ridx = 0
    /\ parse_in \in ParseInputs
    /\ fi = 1 /\ ri = 1 /\ temp_networks = <<>> /\ seen_networks = {}
    /\ rows_read = <<>>
    /\ sudo = TRUE /\ cap = "running" /\ monitorOn = TRUE /\ nm = FALSE
    /\ files = {"file-01.csv"} /\ archived = [n \in FileNames |-> 0]
    /\ backup_ok = TRUE
    /\ issued = {"iwconfig", "airmon-ng check kill", "airmon-ng start",
                 "airodump-ng"}
    /\ logged = {} /\ sigs = 0 /\ cleanups = 0 /\ faults = 0
    /\ hist = {}

NextParse == parse_row \/ parse_next_file \/ parse_assign

SpecParse == InitParse /\ [][NextParse]_vars

----------------------------------------------------------------------------
(* Exceptions.  An exception raised at a position is caught by the         *)
(* innermost enclosing except clause that matches it, in this frame or in  *)
(* a calling one.  "except Exception" does not catch SystemExit; a bare     *)
(* "except:" catches both.                                                  *)

\* positions of run() from which an Exception reaches main()'s except clause
RunPcs ==
    { "print_banner", "check_sudo", "backup_csv_files", "select_interface",
      "scan_set", "scan_sleep", "scan_after", "select_target", "sel_row",
      "sel_print", "sel_input", "atk_confirm", "atk_flag",
      "run_cleanup", "run_cleanup_disc", "run_cleanup_sel", "run_return",
      "detect_except", "kill_except", "enable_except", "discovery_except",
      "scan_except", "setch_except", "inject_except" }

\* where an Exception raised at pc lands in the frame of pc ("none": it
\* leaves the frame)
CatchException(pc) ==
    CASE pc = "detect_wifi_interfaces" -> "detect_except"
      [] pc = "kill_conflicting_processes" -> "kill_except"
      [] pc = "enable_monitor_mode" -> "enable_except"
      [] pc = "start_network_discovery" -> "discovery_except"
      [] pc \in { "scan_check", "scan_parse", "scan_clear", "disp_row",
                  "disp_print", "scan_iter_sleep", "p_except" } -> "scan_except"
      [] pc = "p_row" -> IF fi <= Len(parse_in) THEN "p_except" ELSE "scan_except"
      [] pc = "disp_try" -> "disp_print"
      [] pc = "sel_try" -> "sel_print"
      [] pc = "atk_set_channel" -> "setch_except"
      [] pc \in { "atk_inject", "atk_injecting" } -> "inject_except"
      [] pc = "c_stop" ->
            IF monitor_process # "none" THEN "c_stop_except" ELSE "none"
      [] pc = "c_kill" -> "c_disable"
      [] pc = "c_disable" ->
            IF hacknic # "none" THEN "c_disable_except" ELSE "none"
      [] pc = "c_restart" -> "c_restart_except"
      [] pc \in RunPcs -> "main_except"
      [] OTHER -> "none"

\* where a SystemExit raised at pc lands: only a bare except catches it
\* (lines 331, 406 and 507)
CatchSystemExit(pc) ==
    CASE pc = "disp_try" -> "disp_print"
      [] pc = "sel_try" -> "sel_print"
      [] pc = "c_kill" -> "c_disable"
      [] OTHER -> "none"

RECURSIVE Unwind(_, _)
Unwind(stk, kind) ==
    IF stk = <<>> THEN <<>>
    ELSE LET pc == stk[Len(stk)]
             land == IF kind = "Exception" THEN CatchException(pc)
                     ELSE CatchSystemExit(pc)
         IN  IF land # "none" THEN [stk EXCEPT ![Len(stk)] = land]
             ELSE Unwind(SubSeq(stk, 1, Len(stk) - 1), kind)

\* the process ends when nothing catches: sys.exit(0) gives exit status 0,
\* an uncaught Exception a traceback and exit status 1
EndStatus(stk, kind) ==
    IF stk # <<>> THEN "running"
    ELSE IF kind = "SystemExit" THEN "exit0" ELSE "crash"

Pop(stk) == SubSeq(stk, 1, Len(stk) - 1)

\* variable groups
objVars == << scanning, hacknic, monitor_process, active_wireless_networks >>
locVars == << target, confirm, ridx >>
parseVars == << parse_in, fi, ri, temp_networks, seen_networks, rows_read >>
envVars == << sudo, cap, monitorOn, nm, files, archived, backup_ok >>

\* how an external command can end: exit status 0, a non-zero exit status,
\* subprocess.TimeoutExpired, or an OSError when it cannot be started
Outcomes == { "ok", "nonzero", "timeout", "oserror" }
Raises(o) == o \in { "timeout", "oserror" }

\* an outcome other than "ok" is one of the run's failures
Spend(o) ==
    /\ o = "ok" \/ faults < MaxFaults
    /\ faults' = IF o = "ok" THEN faults ELSE faults + 1

----------------------------------------------------------------------------
(* _signal_handler (lines 55-66) *)

\* the phase of the main flow a position of run() belongs to
SelectionPcs == { "select_target", "sel_row", "sel_try", "sel_print", "sel_input" }
AttackPcs == { "atk_confirm", "atk_set_channel", "setch_except", "atk_flag",
               "atk_inject", "atk_injecting", "inject_except" }
FinalCleanupPcs == { "run_cleanup", "run_cleanup_sel" }
SetupPcs == { "select_interface", "kill_conflicting_processes", "kill_except",
              "enable_monitor_mode", "start_network_discovery" }
LoopPcs == { "scan_check", "scan_parse", "p_row", "p_except", "scan_clear",
             "disp_row", "disp_try", "disp_print", "scan_iter_sleep" }
PhaseOf(pc) ==
    IF pc \in SelectionPcs THEN "selection"
    ELSE IF pc \in AttackPcs THEN "attack"
    ELSE IF pc \in FinalCleanupPcs THEN "final cleanup"
    ELSE IF pc \in LoopPcs THEN "loop"
    ELSE IF pc \in SetupPcs THEN "setup"
    ELSE "other"

\* a handler that runs cleanup() whatever the flag is
signal_handler_always_cleanup ==
    /\ Running /\ sigs < MaxSignals
    /\ scanning
    /\ scanning' = FALSE
    /\ sigs' = sigs + 1
    /\ logged' = logged \cup {"Interrupt signal received"}
    /\ stack' = stack \o << "h_cleanup", "c_begin" >>
    /\ cleanups' = cleanups + 1
    /\ hist' = hist \cup {<<"phaseA", PhaseOf(stack[1])>>}
    /\ UNCHANGED << status, hacknic, monitor_process,
                    active_wireless_networks, issued, faults >>
    /\ UNCHANGED << locVars, parseVars, envVars >>

\* Phase A: the flag is set, the handler returns
signal_handler_scanning ==
    /\ Running /\ sigs < MaxSignals
    /\ scanning
    /\ scanning' = FALSE
    /\ sigs' = sigs + 1
    /\ hist' = hist \cup {<<"phaseA", PhaseOf(stack[1])>>}
    /\ UNCHANGED << stack, status, hacknic, monitor_process,
                    active_wireless_networks, issued, logged, cleanups, faults >>
    /\ UNCHANGED << locVars, parseVars, envVars >>

\* Phase B: log, cleanup(), then sys.exit(0) when cleanup() has returned
signal_handler_cleanup ==
    /\ Running /\ sigs < MaxSignals
    /\ ~scanning
    /\ sigs' = sigs + 1
    /\ logged' = logged \cup {"Interrupt signal received"}
    /\ stack' = stack \o << "h_cleanup", "c_begin" >>
    /\ cleanups' = cleanups + 1
    /\ hist' = hist \cup {<<"phaseB", PhaseOf(stack[1])>>}
    /\ UNCHANGED << status, issued, faults >>
    /\ UNCHANGED << objVars, locVars, parseVars, envVars >>

----------------------------------------------------------------------------
(* cleanup (lines 493-539) and backup_csv_files (lines 105-119) *)

\* line 495
cleanup_begin ==
    /\ Running /\ Top = "c_begin"
    /\ stack' = SetTop("c_stop")
    /\ UNCHANGED << status, issued, logged, sigs, cleanups, faults, hist >>
    /\ UNCHANGED << objVars, locVars, parseVars, envVars >>

\* lines 498-502: terminate() and wait(timeout=5).  terminate() on a process
\* already waited for does nothing.
cleanup_stop ==
    /\ Running /\ Top = "c_stop"
    /\ IF monitor_process = "none"
       THEN /\ stack' = SetTop("c_disable")
            /\ UNCHANGED << cap, issued, faults >>
       ELSE IF cap = "dead"
       THEN /\ stack' = SetTop("c_disable")
            /\ UNCHANGED << cap, issued, faults >>
       ELSE \E o \in { "ok", "timeout", "oserror" } :
            /\ Spend(o)
            /\ issued' = issued \cup {"terminate"}
            /\ IF o = "ok"
               THEN cap' = "dead" /\ stack' = SetTop("c_disable")
               ELSE cap' = cap /\ stack' = SetTop("c_stop_except")
    /\ UNCHANGED << status, logged, sigs, cleanups, hist >>
    /\ UNCHANGED << objVars, locVars, parseVars,
                    sudo, monitorOn, nm, files, archived, backup_ok >>

\* lines 505-508: kill(), any failure of it passed over.  kill() is reached
\* after terminate() or wait() has failed; when it fails too it is for the
\* same reason (the process cannot be signalled), not one more failure of
\* the environment.
cleanup_kill ==
    /\ Running /\ Top = "c_kill"
    /\ \E o \in { "ok", "oserror" } :
         cap' = IF o = "ok" THEN "dead" ELSE cap
    /\ issued' = issued \cup {"kill"}
    /\ stack' = SetTop("c_disable")
    /\ UNCHANGED << status, logged, sigs, cleanups, faults, hist >>
    /\ UNCHANGED << objVars, locVars, parseVars,
                    sudo, monitorOn, nm, files, archived, backup_ok >>

\* lines 511-521: airmon-ng stop <hacknic>mon
cleanup_disable ==
    /\ Running /\ Top = "c_disable"
    /\ IF hacknic = "none"
       THEN /\ stack' = SetTop("c_restart")
            /\ UNCHANGED << monitorOn, issued, faults >>
       ELSE \E o \in Outcomes :
            /\ Spend(o)
            /\ issued' = issued \cup {"airmon-ng stop"}
            /\ monitorOn' = IF o = "ok" THEN FALSE ELSE monitorOn
            /\ stack' = SetTop(IF Raises(o) THEN "c_disable_except"
                               ELSE "c_restart")
    /\ UNCHANGED << status, logged, sigs, cleanups, hist >>
    /\ UNCHANGED << objVars, locVars, parseVars,
                    sudo, cap, nm, files, archived, backup_ok >>

\* lines 524-533: systemctl start NetworkManager
cleanup_restart ==
    /\ Running /\ Top = "c_restart"
    /\ \E o \in Outcomes :
         /\ Spend(o)
         /\ nm' = IF o = "ok" THEN TRUE ELSE nm
         /\ stack' = SetTop(IF Raises(o) THEN "c_restart_except"
                            ELSE "c_archive")
    /\ issued' = issued \cup {"systemctl start"}
    /\ UNCHANGED << status, logged, sigs, cleanups, hist >>
    /\ UNCHANGED << objVars, locVars, parseVars,
                    sudo, cap, monitorOn, files, archived, backup_ok >>

\* backup_csv_files: the files of moved are moved to backup/
MoveFiles(moved) ==
    /\ files' = files \ moved
    /\ archived' = [n \in FileNames |->
                      IF n \in moved THEN archived[n] + 1 ELSE archived[n]]

\* every *.csv file of the working directory is moved
MoveAll ==
    /\ MoveFiles(files)
    /\ backup_ok' = (backup_ok \/ files # {})
    /\ faults' = faults

\* shutil.move raises OSError after some of the files were moved: backup/
\* has become unusable (one failure of the environment), or still is
MoveRaises ==
    /\ files # {}
    /\ IF backup_ok THEN Spend("oserror") ELSE faults' = faults
    /\ backup_ok' = FALSE
    /\ \E moved \in (SUBSET files) \ {files} : MoveFiles(moved)

\* line 536, not inside any try: an error of the move leaves cleanup()
cleanup_archive ==
    /\ Running /\ Top = "c_archive"
    /\ \/ /\ MoveAll
          /\ stack' = SetTop("c_end")
          /\ UNCHANGED << status, hist >>
       \/ /\ MoveRaises
          /\ stack' = Unwind(Pop(stack), "Exception")
          /\ status' = EndStatus(stack', "Exception")
          /\ hist' = hist \cup {<<"cleanup raised">>} \cup
                    (IF stack' = <<"main_except">>
                     THEN {<<"cleanup raised to main">>} ELSE {}) \cup
                    (IF Len(stack) = 2 /\ stack[1] = "main_cleanup"
                        /\ <<"cleanup raised to main">> \in hist
                     THEN {<<"second call raised">>} ELSE {})
    /\ UNCHANGED << issued, logged, sigs, cleanups >>
    /\ UNCHANGED << objVars, locVars, parseVars, sudo, cap, monitorOn, nm >>

\* lines 538-539, and the return to the caller: run() returns after its
\* cleanup, main() calls sys.exit(1), the handler calls sys.exit(0)
cleanup_end ==
    /\ Running /\ Top = "c_end"
    /\ logged' = logged \cup {"Cleanup completed successfully"}
    /\ LET caller == stack[Len(stack) - 1]
           below == Pop(Pop(stack))
       IN  CASE caller = "h_cleanup" ->
                  /\ stack' = Unwind(below, "SystemExit")
                  /\ status' = EndStatus(stack', "SystemExit")
             [] caller = "main_cleanup" ->
                  /\ stack' = <<>>
                  /\ status' = "exit1"
             [] OTHER ->
                  /\ stack' = [Pop(stack) EXCEPT ![Len(stack) - 1] = "run_return"]
                  /\ status' = status
    /\ UNCHANGED << issued, sigs, cleanups, faults, hist >>
    /\ UNCHANGED << objVars, locVars, parseVars, envVars >>

\* the except clauses that log and go on: position -> << log entry, next >>
ExceptTable ==
    [ detect_except |-> << "Error detecting interfaces", "run_return" >>,
      kill_except |-> << "Error killing processes", "enable_monitor_mode" >>,
      enable_except |-> << "Error enabling monitor mode", "run_return" >>,
      discovery_except |-> << "Error starting discovery", "run_cleanup_disc" >>,
      scan_except |-> << "Error during scanning", "scan_after" >>,
      setch_except |-> << "Error setting channel", "run_cleanup" >>,
      inject_except |-> << "Error during attack", "run_cleanup" >>,
      c_stop_except |-> << "Error stopping monitor process", "c_kill" >>,
      c_disable_except |-> << "Error disabling monitor mode", "c_restart" >>,
      c_restart_except |-> << "Error restarting NetworkManager", "c_archive" >>,
      main_except |-> << "Unexpected error", "main_cleanup" >> ]

except_clause ==
    /\ Running /\ Top \in DOMAIN ExceptTable
    /\ logged' = logged \cup {ExceptTable[Top][1]}
    /\ stack' = SetTop(ExceptTable[Top][2])
    /\ UNCHANGED << status, issued, sigs, cleanups, faults, hist >>
    /\ UNCHANGED << objVars, locVars, parseVars, envVars >>

----------------------------------------------------------------------------
(* Operator input *)

\* int(choice) of the digits the operator can type; any other text raises
\* ValueError
IntOf == ("-1" :> -1) @@ ("0" :> 0) @@ ("1" :> 1) @@ ("2" :> 2) @@ ("3" :> 3)
IsInt(c) == Len(c) = 1 /\ c[1] \in DOMAIN IntOf

\* what the operator types at an index prompt
IndexInputs == { <<>>, <<"x">>, <<"-1">>, <<"0">>, <<WS, "1">>, <<"2">>, <<"3">> }

\* str.lower() on the tokens the operator can type at the y/n prompt
lower(c) == [i \in 1..Len(c) |-> IF c[i] = "Y" THEN "y"
                                 ELSE IF c[i] = "N" THEN "n" ELSE c[i]]
ConfirmInputs == { <<"y">>, <<WS, "Y", WS>>, <<"n">>, <<>>, <<"yes">> }

\* detect_wifi_interfaces finds at most this list
interfaces == << "wlan0" >>

----------------------------------------------------------------------------
(* run (lines 541-587) and main (lines 590-599), up to the Display Loop *)

\* lines 93-94
print_banner ==
    /\ Running /\ Top = "print_banner"
    /\ logged' = logged \cup {"Application started"}
    /\ stack' = SetTop("check_sudo")
    /\ UNCHANGED << status, issued, sigs, cleanups, faults, hist >>
    /\ UNCHANGED << objVars, locVars, parseVars, envVars >>

\* a run that goes on whatever the privilege test says
check_sudo_ignored ==
    /\ Running /\ Top = "check_sudo"
    /\ stack' = SetTop("backup_csv_files")
    /\ logged' = IF sudo THEN logged
                 ELSE logged \cup {"Program executed without sudo privileges"}
    /\ UNCHANGED << status, issued, sigs, cleanups, faults, hist >>
    /\ UNCHANGED << objVars, locVars, parseVars, envVars >>

\* lines 96-103 and 546-547
check_sudo ==
    /\ Running /\ Top = "check_sudo"
    /\ IF sudo
       THEN stack' = SetTop("backup_csv_files") /\ logged' = logged
       ELSE /\ stack' = SetTop("run_return")
            /\ logged' = logged \cup {"Program executed without sudo privileges"}
    /\ UNCHANGED << status, issued, sigs, cleanups, faults, hist >>
    /\ UNCHANGED << objVars, locVars, parseVars, envVars >>

\* line 550: backup_csv_files at the start of the run
run_backup ==
    /\ Running /\ Top = "backup_csv_files"
    /\ \/ /\ MoveAll
          /\ stack' = SetTop("detect_wifi_interfaces")
          /\ UNCHANGED status
       \/ /\ MoveRaises
          /\ stack' = Unwind(stack, "Exception")
          /\ status' = EndStatus(stack', "Exception")
    /\ UNCHANGED << issued, logged, sigs, cleanups, hist >>
    /\ UNCHANGED << objVars, locVars, parseVars, sudo, cap, monitorOn, nm >>

\* lines 121-151 and 553-555
detect_wifi_interfaces ==
    /\ Running /\ Top = "detect_wifi_interfaces"
    /\ issued' = issued \cup {"iwconfig"}
    /\ \E o \in Outcomes, found \in BOOLEAN :
         /\ Spend(o)
         /\ IF Raises(o)
            THEN stack' = SetTop("detect_except") /\ logged' = logged
            ELSE IF found
            THEN /\ stack' = SetTop("select_interface")
                 /\ logged' = logged \cup {"Found wireless interfaces"}
            ELSE /\ stack' = SetTop("run_return")
                 /\ logged' = logged \cup {"No wireless interfaces found"}
    /\ UNCHANGED << status, sigs, cleanups, hist >>
    /\ UNCHANGED << objVars, locVars, parseVars, envVars >>

\* lines 153-174 and 558-560.  KeyboardInterrupt is never raised: the
\* handler of line 37 has replaced the one that raises it.
select_interface ==
    /\ Running /\ Top = "select_interface"
    /\ \E typed \in IndexInputs :
         LET choice == strip(typed)
         IN  IF IsInt(choice) /\ 0 <= IntOf[choice[1]]
                /\ IntOf[choice[1]] < Len(interfaces)
             THEN /\ stack' = SetTop("kill_conflicting_processes")
                  /\ logged' = logged \cup {"Selected interface"}
             ELSE UNCHANGED << stack, logged >>
    /\ UNCHANGED << status, issued, sigs, cleanups, faults, hist >>
    /\ UNCHANGED << objVars, locVars, parseVars, envVars >>

\* lines 176-190: airmon-ng check kill stops NetworkManager; its exit status
\* is not looked at
kill_conflicting_processes ==
    /\ Running /\ Top = "kill_conflicting_processes"
    /\ issued' = issued \cup {"airmon-ng check kill"}
    /\ \E o \in Outcomes, killed \in BOOLEAN :
         /\ Spend(o)
         /\ o = "ok" => killed
         /\ o = "oserror" => ~killed
         /\ nm' = (nm /\ ~killed)
         /\ IF Raises(o)
            THEN stack' = SetTop("kill_except") /\ logged' = logged
            ELSE /\ stack' = SetTop("enable_monitor_mode")
                 /\ logged' = logged \cup {"Conflicting processes killed"}
    /\ UNCHANGED << status, sigs, cleanups, hist >>
    /\ UNCHANGED << objVars, locVars, parseVars,
                    sudo, cap, monitorOn, files, archived, backup_ok >>

\* lines 192-216 and 566-567
enable_monitor_mode ==
    /\ Running /\ Top = "enable_monitor_mode"
    /\ issued' = issued \cup {"airmon-ng start"}
    /\ \E o \in Outcomes, changed \in BOOLEAN :
         /\ Spend(o)
         /\ o = "ok" => changed
         /\ o = "oserror" => ~changed
         /\ monitorOn' = (monitorOn \/ changed)
         /\ CASE o = "ok" ->
                   /\ hacknic' = interfaces[1]
                   /\ stack' = SetTop("start_network_discovery")
                   /\ logged' = logged \cup {"Monitor mode enabled"}
              [] o = "nonzero" ->
                   /\ hacknic' = hacknic
                   /\ stack' = SetTop("run_return")
                   /\ logged' = logged \cup {"Failed to enable monitor mode"}
              [] OTHER ->
                   /\ hacknic' = hacknic
                   /\ stack' = SetTop("enable_except")
                   /\ logged' = logged
    /\ UNCHANGED << status, sigs, cleanups, hist >>
    /\ UNCHANGED << scanning, monitor_process, active_wireless_networks >>
    /\ UNCHANGED << locVars, parseVars, sudo, cap, nm, files, archived,
                    backup_ok >>

\* lines 218-235 and 570-572: Popen of airodump-ng, which writes file-01.csv
start_network_discovery ==
    /\ Running /\ Top = "start_network_discovery"
    /\ issued' = issued \cup {"airodump-ng"}
    /\ \E o \in { "ok", "oserror" } :
         /\ Spend(o)
         /\ IF o = "ok"
            THEN /\ monitor_process' = "popen"
                 /\ cap' = "running"
                 /\ files' = files \cup {"file-01.csv"}
                 /\ logged' = logged \cup {"Network discovery process started"}
                 /\ stack' = SetTop("scan_set")
            ELSE /\ stack' = SetTop("discovery_except")
                 /\ UNCHANGED << monitor_process, cap, files, logged >>
    /\ UNCHANGED << status, sigs, cleanups, hist >>
    /\ UNCHANGED << scanning, hacknic, active_wireless_networks >>
    /\ UNCHANGED << locVars, parseVars, sudo, monitorOn, nm, archived,
                    backup_ok >>

\* lines 571, 580, 587 and 598: the call of cleanup()
call_cleanup ==
    /\ Running
    /\ Top \in { "run_cleanup", "run_cleanup_disc", "run_cleanup_sel",
                 "main_cleanup" }
    /\ stack' = Append(stack, "c_begin")
    /\ cleanups' = cleanups + 1
    /\ UNCHANGED << status, issued, logged, sigs, faults, hist >>
    /\ UNCHANGED << objVars, locVars, parseVars, envVars >>

\* run() returns to main(), which returns: the process ends with status 0
run_return ==
    /\ Running /\ Top = "run_return"
    /\ stack' = <<>>
    /\ status' = "returned"
    /\ UNCHANGED << issued, logged, sigs, cleanups, faults, hist >>
    /\ UNCHANGED << objVars, locVars, parseVars, envVars >>

----------------------------------------------------------------------------
(* scan_networks (lines 343-366) and display_networks (lines 295-340) *)

\* line 345
scan_set ==
    /\ Running /\ Top = "scan_set"
    /\ scanning' = TRUE
    /\ stack' = SetTop("scan_sleep")
    /\ UNCHANGED << status, issued, logged, sigs, cleanups, faults, hist >>
    /\ UNCHANGED << hacknic, monitor_process, active_wireless_networks >>
    /\ UNCHANGED << locVars, parseVars, envVars >>

\* lines 346-347
scan_sleep ==
    /\ Running /\ Top = "scan_sleep"
    /\ stack' = SetTop("scan_check")
    /\ UNCHANGED << status, issued, logged, sigs, cleanups, faults, hist >>
    /\ UNCHANGED << objVars, locVars, parseVars, envVars >>

\* line 350: while self.scanning
scan_check ==
    /\ Running /\ Top = "scan_check"
    /\ stack' = SetTop(IF scanning THEN "scan_parse" ELSE "scan_after")
    /\ UNCHANGED << status, issued, logged, sigs, cleanups, faults, hist >>
    /\ UNCHANGED << objVars, locVars, parseVars, envVars >>

\* a pass that empties the registry when it begins
scan_parse_clears ==
    /\ Running /\ Top = "scan_parse"
    /\ parse_in' \in (IF "file-01.csv" \in files THEN ScanInputs ELSE {<<>>})
    /\ fi' = 1 /\ ri' = 1
    /\ temp_networks' = <<>> /\ seen_networks' = {} /\ rows_read' = <<>>
    /\ active_wireless_networks' = <<>>
    /\ stack' = SetTop("p_row")
    /\ UNCHANGED << status, issued, logged, sigs, cleanups, faults, hist >>
    /\ UNCHANGED << scanning, hacknic, monitor_process >>
    /\ UNCHANGED << locVars, envVars >>

\* lines 244-247: a pass begins with the files the glob file-*.csv finds
scan_parse ==
    /\ Running /\ Top = "scan_parse"
    /\ parse_in' \in (IF "file-01.csv" \in files THEN ScanInputs ELSE {<<>>})
    /\ fi' = 1 /\ ri' = 1
    /\ temp_networks' = <<>> /\ seen_networks' = {} /\ rows_read' = <<>>
    /\ stack' = SetTop("p_row")
    /\ UNCHANGED << status, issued, logged, sigs, cleanups, faults, hist >>
    /\ UNCHANGED << objVars, locVars, envVars >>

\* an error of the iteration that no inner clause catches (the glob of the
\* working directory raising OSError) reaches the except of line 356
scan_iteration_error ==
    /\ Running /\ Top = "scan_parse"
    /\ stack' = Unwind(stack, "Exception")
    /\ hist' = hist \cup {<<"iteration error">>}
    /\ Spend("oserror")
    /\ UNCHANGED << status, issued, logged, sigs, cleanups >>
    /\ UNCHANGED << objVars, locVars, parseVars, envVars >>

\* lines 283-284 reached from outside the row (an exception a handler raised)
parse_except ==
    /\ Running /\ Top = "p_except"
    /\ logged' = logged \cup {"Error parsing CSV"}
    /\ fi' = fi + 1 /\ ri' = 1
    /\ stack' = SetTop("p_row")
    /\ UNCHANGED << status, issued, sigs, cleanups, faults, hist >>
    /\ UNCHANGED << parse_in, temp_networks, seen_networks, rows_read >>
    /\ UNCHANGED << objVars, locVars, envVars >>

\* lines 353 and 298-306
scan_clear ==
    /\ Running /\ Top = "scan_clear"
    /\ ridx' = 1
    /\ stack' = SetTop("disp_row")
    /\ UNCHANGED << status, issued, logged, sigs, cleanups, faults, hist >>
    /\ UNCHANGED << target, confirm >>
    /\ UNCHANGED << objVars, parseVars, envVars >>

\* the test of lines 318 and 393 on a row's power
HasPower(row) == strip(row.Power) # <<"N/A">> /\ strip(row.Power) # <<>>

\* lines 309-318 and 384-393: the next row of a rendering loop
render_row(at, try, print, after) ==
    /\ Running /\ Top = at
    /\ IF ridx > Len(active_wireless_networks)
       THEN stack' = SetTop(after)
       ELSE IF HasPower(active_wireless_networks[ridx])
       THEN stack' = SetTop(try)
       ELSE stack' = SetTop(print)
    /\ UNCHANGED << status, issued, logged, sigs, cleanups, faults, hist >>
    /\ UNCHANGED << objVars, locVars, parseVars, envVars >>

\* lines 319-332 and 394-407: the signal bar, inside try ... except:
render_try(try, print) ==
    /\ Running /\ Top = try
    /\ stack' = SetTop(print)
    /\ UNCHANGED << status, issued, logged, sigs, cleanups, faults, hist >>
    /\ UNCHANGED << objVars, locVars, parseVars, envVars >>

\* lines 335-337 and 409-411
render_print(at, print) ==
    /\ Running /\ Top = print
    /\ ridx' = ridx + 1
    /\ stack' = SetTop(at)
    /\ hist' = IF print = "sel_print"
               THEN hist \cup {<<"shown", ridx - 1, active_wireless_networks[ridx]>>}
               ELSE hist
    /\ UNCHANGED << status, issued, logged, sigs, cleanups, faults >>
    /\ UNCHANGED << target, confirm >>
    /\ UNCHANGED << objVars, parseVars, envVars >>

display_row == render_row("disp_row", "disp_try", "disp_print", "scan_iter_sleep")
display_try == render_try("disp_try", "disp_print")
display_print == render_print("disp_row", "disp_print")

\* line 355
scan_iter_sleep ==
    /\ Running /\ Top = "scan_iter_sleep"
    /\ stack' = SetTop("scan_check")
    /\ UNCHANGED << status, issued, logged, sigs, cleanups, faults, hist >>
    /\ UNCHANGED << objVars, locVars, parseVars, envVars >>

\* lines 361-366: the notice, only when the flag is false
scan_after ==
    /\ Running /\ Top = "scan_after"
    /\ IF ~scanning
       THEN /\ logged' = logged \cup {"Network scanning stopped by user"}
            /\ hist' = hist \cup {<<"notice">>}
       ELSE UNCHANGED << logged, hist >>
    /\ stack' = SetTop("select_target")
    /\ UNCHANGED << status, issued, sigs, cleanups, faults >>
    /\ UNCHANGED << objVars, locVars, parseVars, envVars >>

----------------------------------------------------------------------------
(* select_target (lines 368-435) *)

\* lines 370-381 and 578-581
select_target ==
    /\ Running /\ Top = "select_target"
    /\ IF active_wireless_networks = <<>>
       THEN stack' = SetTop("run_cleanup_sel") /\ ridx' = ridx
       ELSE stack' = SetTop("sel_row") /\ ridx' = 1
    /\ target' = <<>>
    /\ UNCHANGED << status, issued, logged, sigs, cleanups, faults, hist >>
    /\ UNCHANGED confirm
    /\ UNCHANGED << objVars, parseVars, envVars >>

select_row == render_row("sel_row", "sel_try", "sel_print", "sel_input")
select_try == render_try("sel_try", "sel_print")
select_print == render_print("sel_row", "sel_print")

\* a prompt without the lower bound of line 425: a negative index counts
\* from the end of the list
select_input_no_lower_bound ==
    /\ Running /\ Top = "sel_input"
    /\ \E typed \in IndexInputs :
         LET choice == strip(typed)
             n == Len(active_wireless_networks)
         IN  IF choice # <<>> /\ IsInt(choice) /\ -n <= IntOf[choice[1]]
                /\ IntOf[choice[1]] < n
             THEN LET idx == IntOf[choice[1]]
                  IN  /\ target' = << active_wireless_networks[
                                         IF idx < 0 THEN n + idx + 1 ELSE idx + 1] >>
                      /\ logged' = logged \cup {"Selected target"}
                      /\ hist' = hist \cup {<<"selected", idx>>}
                      /\ stack' = SetTop("atk_confirm")
             ELSE UNCHANGED << target, logged, hist, stack >>
    /\ UNCHANGED << status, issued, sigs, cleanups, faults >>
    /\ UNCHANGED << confirm, ridx >>
    /\ UNCHANGED << objVars, parseVars, envVars >>

\* lines 416-432: one input of the prompt
select_input ==
    /\ Running /\ Top = "sel_input"
    /\ \E typed \in IndexInputs :
         LET choice == strip(typed)
         IN  IF choice # <<>> /\ IsInt(choice) /\ 0 <= IntOf[choice[1]]
                /\ IntOf[choice[1]] < Len(active_wireless_networks)
             THEN /\ target' = << active_wireless_networks[IntOf[choice[1]] + 1] >>
                  /\ logged' = logged \cup {"Selected target"}
                  /\ hist' = hist \cup {<<"selected", IntOf[choice[1]]>>}
                  /\ stack' = SetTop("atk_confirm")
             ELSE UNCHANGED << target, logged, hist, stack >>
    /\ UNCHANGED << status, issued, sigs, cleanups, faults >>
    /\ UNCHANGED << confirm, ridx >>
    /\ UNCHANGED << objVars, parseVars, envVars >>

----------------------------------------------------------------------------
(* perform_deauth_attack (lines 437-491) *)

\* a confirmation that only the answer n cancels
attack_confirm_unless_n ==
    /\ Running /\ Top = "atk_confirm"
    /\ \E typed \in ConfirmInputs :
         /\ confirm' = lower(strip(typed))
         /\ stack' = SetTop(IF confirm' = <<"n">> THEN "run_cleanup"
                            ELSE "atk_set_channel")
    /\ UNCHANGED << status, issued, logged, sigs, cleanups, faults, hist >>
    /\ UNCHANGED << target, ridx >>
    /\ UNCHANGED << objVars, parseVars, envVars >>

\* lines 453-456
attack_confirm ==
    /\ Running /\ Top = "atk_confirm"
    /\ \E typed \in ConfirmInputs :
         /\ confirm' = lower(strip(typed))
         /\ stack' = SetTop(IF confirm' # <<"y">> THEN "run_cleanup"
                            ELSE "atk_set_channel")
    /\ UNCHANGED << status, issued, logged, sigs, cleanups, faults, hist >>
    /\ UNCHANGED << target, ridx >>
    /\ UNCHANGED << objVars, parseVars, envVars >>

\* lines 459-470: airmon-ng start <hacknic>mon <channel>, timeout 10; the
\* exit status is not looked at
attack_set_channel ==
    /\ Running /\ Top = "atk_set_channel"
    /\ issued' = issued \cup {"airmon-ng start channel"}
    /\ \E o \in Outcomes :
         /\ Spend(o)
         /\ hist' = hist \cup {<<"set channel", o>>}
         /\ stack' = SetTop(IF Raises(o) THEN "setch_except" ELSE "atk_flag")
    /\ UNCHANGED << status, logged, sigs, cleanups >>
    /\ UNCHANGED << objVars, locVars, parseVars, envVars >>

\* the attack without the assignment of line 478
attack_flag_keeps_flag ==
    /\ Running /\ Top = "atk_flag"
    /\ logged' = logged \cup {"Starting deauth attack"}
    /\ stack' = SetTop("atk_inject")
    /\ UNCHANGED << status, issued, sigs, cleanups, faults, hist >>
    /\ UNCHANGED << objVars, locVars, parseVars, envVars >>

\* lines 473-478
attack_flag ==
    /\ Running /\ Top = "atk_flag"
    /\ logged' = logged \cup {"Starting deauth attack"}
    /\ scanning' = FALSE
    /\ stack' = SetTop("atk_inject")
    /\ UNCHANGED << status, issued, sigs, cleanups, faults, hist >>
    /\ UNCHANGED << hacknic, monitor_process, active_wireless_networks >>
    /\ UNCHANGED << locVars, parseVars, envVars >>

\* lines 480-485: aireplay-ng is started
attack_inject ==
    /\ Running /\ Top = "atk_inject"
    /\ issued' = issued \cup {"aireplay-ng"}
    /\ \E o \in { "ok", "oserror" } :
         /\ Spend(o)
         /\ stack' = SetTop(IF o = "ok" THEN "atk_injecting" ELSE "inject_except")
    /\ UNCHANGED << status, logged, sigs, cleanups, hist >>
    /\ UNCHANGED << objVars, locVars, parseVars, envVars >>

\* aireplay-ng ends by itself, with any exit status (check=False)
attack_injecting ==
    /\ Running /\ Top = "atk_injecting"
    /\ stack' = SetTop("run_cleanup")
    /\ UNCHANGED << status, issued, logged, sigs, cleanups, faults, hist >>
    /\ UNCHANGED << objVars, locVars, parseVars, envVars >>

----------------------------------------------------------------------------
(* The program *)

\* __init__ (lines 25-38), in an environment with or without SUDO_UID and
\* with or without a *.csv file left in the working directory
Init ==
    /\ stack = <<"print_banner">> /\ status = "running"
    /\ scanning = TRUE /\ hacknic = "none" /\ monitor_process = "none"
    /\ active_wireless_networks = <<>>
    /\ target = <<>> /\ confirm = <<>> /\ ridx = 0
    /\ parse_in = <<>> /\ fi = 1 /\ ri = 1
    /\ temp_networks = <<>> /\ seen_networks = {} /\ rows_read = <<>>
    /\ sudo \in BOOLEAN
    /\ cap = "none" /\ monitorOn = FALSE /\ nm = TRUE
    /\ files = {"old.csv"}
    /\ archived = [n \in FileNames |-> 0]
    /\ backup_ok = TRUE
    /\ issued = {} /\ logged = {} /\ sigs = 0 /\ cleanups = 0 /\ faults = 0
    /\ hist = {}

Next ==
    \/ signal_handler_scanning \/ signal_handler_cleanup
    \/ print_banner \/ check_sudo \/ run_backup \/ detect_wifi_interfaces
    \/ select_interface \/ kill_conflicting_processes \/ enable_monitor_mode
    \/ start_network_discovery \/ call_cleanup \/ run_return
    \/ scan_set \/ scan_sleep \/ scan_check \/ scan_parse
    \/ scan_iteration_error \/ parse_row \/ parse_next_file \/ parse_assign
    \/ parse_except \/ scan_clear \/ display_row \/ display_try
    \/ display_print \/ scan_iter_sleep \/ scan_after
    \/ select_target \/ select_row \/ select_try \/ select_print
    \/ select_input
    \/ attack_confirm \/ attack_set_channel \/ attack_flag \/ attack_inject
    \/ attack_injecting
    \/ cleanup_begin \/ cleanup_stop \/ cleanup_kill \/ cleanup_disable
    \/ cleanup_restart \/ cleanup_archive \/ cleanup_end \/ except_clause

Spec == Init /\ [][Next]_vars

----------------------------------------------------------------------------
(* Properties of the parse pass *)

\* the station sentinel has been read in the file the pass is in
SentinelRead ==
    /\ fi <= Len(parse_in)
    /\ \E k \in 1..(ri - 1) :
          k <= Len(parse_in[fi]) /\ strip(parse_in[fi][k].BSSID) = STATION_MAC

\* a row the claims count: a network row with non-empty ESSID and channel
Eligible(row) ==
    /\ ~IsNone(row, ColESSID)
    /\ strip(row.BSSID) \notin {BSSID_HEADER, STATION_MAC, <<>>}
    /\ strip(row.ESSID) # <<>>
    /\ strip(row.channel) # <<>>

Identity(row) == << strip(row.BSSID), strip(row.ESSID) >>

\* the last eligible row of the pass with the identity of rows_read[i]
IsLastOfIdentity(i) ==
    /\ Eligible(rows_read[i])
    /\ \A j \in (i + 1)..Len(rows_read) :
          ~(Eligible(rows_read[j]) /\ Identity(rows_read[j]) = Identity(rows_read[i]))

\* the pass has read every file: line 287 assigns temp_networks next
PassDone == Top = "p_row" /\ fi > Len(parse_in)

\* C4: the result of a pass holds exactly one record for each distinct
\* trimmed (BSSID, ESSID) among the rows read that have non-empty ESSID and
\* channel, and that record is the last such row of the pass.
C4_LastRowWins ==
    PassDone =>
        /\ \A i \in 1..Len(rows_read) :
              IsLastOfIdentity(i) =>
                \E n \in 1..Len(temp_networks) : temp_networks[n] = rows_read[i]
        /\ \A n, m \in 1..Len(temp_networks) :
              Identity(temp_networks[n]) = Identity(temp_networks[m]) => n = m
        /\ \A n \in 1..Len(temp_networks) :
              \E i \in 1..Len(rows_read) :
                  IsLastOfIdentity(i) /\ temp_networks[n] = rows_read[i]

\* C5: once the row "Station MAC" of a file has been read, no later row of
\* that file changes the result of the pass.
C5_NothingAfterSentinel ==
    [][ (Top = "p_row" /\ SentinelRead) => temp_networks' = temp_networks ]_vars

\* a record the registry may hold
ValidRecord(row) ==
    /\ strip(row.BSSID) # <<>>
    /\ strip(row.BSSID) # BSSID_HEADER
    /\ ~IsNone(row, ColESSID)
    /\ strip(row.ESSID) # <<>>
    /\ strip(row.channel) # <<>>

\* C6: the registry holds only rows with a non-empty identity that is not
\* the header literal, and with non-empty ESSID and channel after trimming.
C6_RegistryValid ==
    /\ \A n \in 1..Len(active_wireless_networks) :
          ValidRecord(active_wireless_networks[n])
    /\ \A n \in 1..Len(temp_networks) : ValidRecord(temp_networks[n])

\* a pass that read the two rows the spec's scenario names, and a valid one,
\* ended with the valid one alone in the registry
C6_Witness ==
    /\ PassDone
    /\ \E i, j, k \in 1..Len(rows_read) :
          rows_read[i] = NoEssid /\ rows_read[j] = NoChannel /\ rows_read[k] = NetB70
    /\ temp_networks = <<NetB70>>

----------------------------------------------------------------------------
(* Properties of the main flow *)

Frames == { stack[i] : i \in 1..Len(stack) }

\* the process has ended, in whichever way
Ended == status # "running"

\* C1: an interrupt delivered with the flag false during target selection,
\* attack execution or the final cleanup ends the process with exit code 0
\* once the handler's cleanup() has returned; the main flow never resumes.
\* In a state: after such an interrupt either a handler is still running or
\* the process has ended with exit code 0.  (Stated for handlers whose
\* cleanup() returns; a cleanup() that raises is the matter of C8.)
C1_InterruptTerminates ==
    ( /\ \E ph \in {"selection", "attack", "final cleanup"} :
            <<"phaseB", ph>> \in hist
      /\ <<"cleanup raised">> \notin hist )
    => ( "h_cleanup" \in Frames \/ status = "exit0" )

\* C2: an interrupt delivered while the loop of scan_networks runs with the
\* flag true only sets the flag to false (no cleanup(), no end of the
\* process, nothing else changed); no iteration starts with the flag false;
\* with the flag false the loop test leaves the loop, and scan_networks
\* returns to run(), which goes on with target selection.
C2_InterruptStopsLoop ==
    /\ [][ (stack # <<>> /\ sigs' = sigs + 1 /\ scanning /\ stack[1] \in LoopPcs)
            => ( /\ ~scanning'
                 /\ UNCHANGED << stack, status, cleanups, issued, hacknic,
                                 monitor_process, active_wireless_networks >>
                 /\ UNCHANGED envVars ) ]_vars
    /\ [][ (stack # <<>> /\ stack[1] # "scan_parse"
              /\ stack' # <<>> /\ stack'[1] = "scan_parse")
            => scanning ]_vars
    /\ [][ (stack = <<"scan_check">> /\ ~scanning /\ sigs' = sigs)
            => stack' = <<"scan_after">> ]_vars
    /\ [][ (stack = <<"scan_after">> /\ sigs' = sigs)
            => stack' = <<"select_target">> ]_vars

\* one interrupt, delivered in the loop, and the run is at target selection
\* with no cleanup() begun
C2_Witness ==
    /\ <<"phaseA", "loop">> \in hist
    /\ sigs = 1 /\ cleanups = 0
    /\ ~scanning /\ status = "running"
    /\ stack = <<"select_target">>
    /\ <<"notice">> \in hist

\* the state-changing external commands of the setup
StateChanging == { "airmon-ng check kill", "airmon-ng start", "airodump-ng" }

\* C3: once a state-changing external command has been issued, cleanup() is
\* invoked before the process ends, on every way the run ends.
C3_CleanupBeforeEnd ==
    (Ended /\ issued \cap StateChanging # {}) => cleanups > 0

\* C7: when cleanup() is called twice in a row (main() calls it at line 598
\* right after a call of it has ended by raising into main()'s except
\* clause), the second call surfaces no error, and no snapshot file is
\* archived more than once.
C7_SecondCallSilent ==
    /\ <<"second call raised">> \notin hist
    /\ \A n \in FileNames : archived[n] <= 1

\* C8: cleanup() never raises to its caller.
C8_CleanupNeverRaises == <<"cleanup raised">> \notin hist

\* the commands of the attack
AttackCommands == { "airmon-ng start channel", "aireplay-ng" }

\* C9: the set-channel and the injection command are issued only after the
\* confirmation input, trimmed and lowered, is y; on any other input the
\* attack returns to run() with no command issued and with the flag, the
\* registry, the interface state and the capture handle unchanged.
C9_ConfirmGuardsAttack ==
    /\ [](issued \cap AttackCommands # {} => confirm = <<"y">>)
    /\ [][ (stack = <<"atk_confirm">> /\ stack' # stack /\ sigs' = sigs
              /\ confirm' # <<"y">>)
            => ( /\ stack' = <<"run_cleanup">>
                 /\ UNCHANGED << issued, scanning, active_wireless_networks,
                                 hacknic, monitor_process, monitorOn, cap >> ) ]_vars

\* the operator answered yes, which is not y: the attack has returned to
\* run() with none of its commands issued
C9_Witness ==
    /\ confirm = <<"yes">>
    /\ stack = <<"run_cleanup">>
    /\ issued \cap AttackCommands = {}
    /\ scanning

\* C10: the injection command is never invoked when the set-channel command
\* failed by a timeout, a launch error or a non-zero exit status.
C10_NoInjectionAfterFailure ==
    "aireplay-ng" \in issued =>
        \A o \in Outcomes \ {"ok"} : <<"set channel", o>> \notin hist

\* C11: an unexpected error raised during an iteration of the Display Loop
\* is logged and the loop goes on; the loop of scan_networks ends only after
\* an interrupt has set the scanning flag to false, never because of an
\* internal error.  In a state: when scan_networks is past its loop, the
\* flag is false.
C11_LoopEndsOnlyOnInterrupt ==
    (stack # <<>> /\ stack[1] = "scan_after") => ~scanning

\* C12: whenever the injection command is about to run or running, the
\* scanning flag is false, on every path to the injection; so an interrupt
\* delivered while it runs is not taken as a stop request: the handler runs
\* cleanup(), and when that cleanup() returns the process ends with exit
\* code 0.
C12_FlagFalseDuringInjection ==
    /\ []( (stack # <<>> /\ stack[1] \in {"atk_inject", "atk_injecting"})
            => ~scanning )
    /\ [][ (stack = <<"atk_injecting">> /\ sigs' = sigs + 1)
            => ( /\ cleanups' = cleanups + 1
                 /\ ~scanning'
                 /\ stack' = <<"atk_injecting", "h_cleanup", "c_begin">> ) ]_vars
    /\ [][ (stack = <<"atk_injecting", "h_cleanup", "c_end">> /\ sigs' = sigs)
            => status' = "exit0" ]_vars

\* the injection runs on a path on which no interrupt was delivered: the
\* Display Loop was left by an error
C12_Witness ==
    /\ stack = <<"atk_injecting">>
    /\ sigs = 0
    /\ <<"iteration error">> \in hist
    /\ ~scanning

\* what a run without the privilege marker leaves untouched
NothingStarted ==
    /\ issued = {}
    /\ \A n \in FileNames : archived[n] = 0
    /\ cleanups = 0

\* C13 as stated: without SUDO_UID no external command is started, no file
\* is moved, cleanup() is not invoked, and the only log entry of the run is
\* the precondition failure.
C13_OnlyPreconditionLogged ==
    ~sudo => ( /\ NothingStarted
               /\ logged \subseteq {"Program executed without sudo privileges"} )

\* C13 amended: without SUDO_UID, and with no interrupt handled by the
\* else branch of the handler, run() only prints the banner and tests the
\* marker: nothing is started, moved or cleaned up, the log holds the entry
\* of the banner and the precondition failure and nothing else, and the
\* process ends by run() returning, with the precondition failure logged.
C13_NoSudoEndsAtOnce ==
    (~sudo /\ "Interrupt signal received" \notin logged) =>
        /\ NothingStarted
        /\ logged \subseteq {"Application started",
                              "Program executed without sudo privileges"}
        /\ stack # <<>> => stack[1] \in {"print_banner", "check_sudo", "run_return"}
        /\ Ended => ( /\ status = "returned"
                      /\ "Program executed without sudo privileges" \in logged )

\* a run without the marker has ended
C13_Witness ==
    /\ ~sudo /\ status = "returned"
    /\ logged = {"Application started", "Program executed without sudo privileges"}
    /\ NothingStarted

\* C14: an error that escapes run(), raised at any step including inside a
\* cleanup() call made by run(), leads main() to invoke cleanup() and then
\* end the process with exit status 1; main() is never left with an
\* unhandled error, and the process never ends after such an error without
\* main() having called cleanup().  (Stated for runs in which no interrupt
\* is delivered.)
C14_EscapedErrorEndsInExit1 ==
    sigs = 0 =>
        /\ status # "crash"
        /\ (Ended /\ "Unexpected error" \in logged) => cleanups > 0
        /\ status = "returned" => "Unexpected error" \notin logged

----------------------------------------------------------------------------
(* Properties of the parse pass over several files *)

\* the row makes the row loop raise: it is not skipped and has no ESSID or
\* channel column
RaisingRow(row) ==
    /\ ~SkippedId(strip(row.BSSID))
    /\ IsNone(row, ColESSID) \/ IsNone(row, ColChannel)

\* file f of the pass holds a row on which the loop raises
FileErrored(f) ==
    \E k \in 1..Len(parse_in[f]) : RaisingRow(parse_in[f][k])

\* C15: in a pass over several files a parse error on one file is logged
\* and does not abort the pass: at the end of the pass every network of
\* every other file (its rows with non-empty ESSID and channel) has a record
\* in the result.
C15_ErrorKeepsOtherFiles ==
    PassDone =>
        /\ \A f \in 1..Len(parse_in) :
              ~FileErrored(f) =>
                 \A k \in 1..Len(parse_in[f]) :
                    Eligible(parse_in[f][k]) =>
                       \E n \in 1..Len(temp_networks) :
                          Identity(temp_networks[n]) = Identity(parse_in[f][k])
        /\ (\E f \in 1..Len(parse_in) : FileErrored(f))
              => "Error parsing CSV" \in logged

\* the first file of the pass raised, the second one holds a network, and
\* the pass ended with that network in the result
C15_Witness ==
    /\ PassDone
    /\ Len(parse_in) = 2
    /\ FileErrored(1) /\ ~FileErrored(2)
    /\ \E k \in 1..Len(parse_in[2]) :
          /\ Eligible(parse_in[2][k])
          /\ \E n \in 1..Len(temp_networks) : temp_networks[n] = parse_in[2][k]
    /\ "Error parsing CSV" \in logged

----------------------------------------------------------------------------
(* Properties of the registry and of the phases of the run *)

\* C16: the registry is replaced as a whole, at the end of a parse pass and
\* by the complete result of that pass; no other step changes it, so where
\* it is rendered or indexed it is the result of the most recent pass that
\* ran to its end, also when an interrupt arrives during a pass.
C16_RegistryReplacedAsWhole ==
    [][ active_wireless_networks' # active_wireless_networks
        => ( /\ stack # <<>> /\ Top = "p_row"
             /\ fi > Len(parse_in)
             /\ active_wireless_networks' = temp_networks
             /\ stack' = SetTop("scan_clear") ) ]_vars

\* target selection indexes the result of the pass during which the
\* interrupt arrived
C16_Witness ==
    /\ stack = <<"sel_input">>
    /\ active_wireless_networks = <<PadA45, NetB70>>
    /\ <<"phaseA", "loop">> \in hist
    /\ sigs = 1

\* C17: an interrupt delivered during the pre-capture setup with the flag
\* true sets the flag to false, and the flag stays false until the Display
\* Loop tests it: with no other interrupt, the flag is false from then on up
\* to the loop test, and the loop runs no iteration.
C17_SetupInterruptStopsLoop ==
    (<<"phaseA", "setup">> \in hist /\ sigs = 1 /\ stack # <<>>) =>
        /\ stack[1] \in SetupPcs \cup {"scan_set", "scan_sleep", "scan_check"}
              => ~scanning
        /\ stack[1] \notin LoopPcs \ {"scan_check"}

\* C18: whenever control is in target selection or in the confirmation and
\* channel-setting steps of the attack, the scanning flag is false and the
\* scanning-stopped notice has been shown, on every way scan_networks can
\* return.
C18_FlagFalseInSelection ==
    (stack # <<>> /\ stack[1] \in SelectionPcs \cup {"atk_confirm", "atk_set_channel"})
        => (~scanning /\ <<"notice">> \in hist)

----------------------------------------------------------------------------
(* Properties of the steps of cleanup *)

\* C19: the forced kill is issued only after the graceful request or its
\* wait has failed, and that failure has been logged, not raised; when the
\* stop step of a cleanup() that holds a capture handle has ended, the
\* capture process is no longer running.
C19_StopCapture ==
    /\ [][ ("kill" \in issued' /\ "kill" \notin issued)
            => ( /\ "terminate" \in issued
                 /\ "Error stopping monitor process" \in logged
                 /\ stack # <<>> /\ Top = "c_kill" ) ]_vars
    /\ []( (stack # <<>> /\ Top = "c_disable" /\ monitor_process # "none")
            => cap # "running" )

\* the positions of cleanup(), in the order of its text
CleanupOrder ==
    << "c_begin", "c_stop", "c_stop_except", "c_kill", "c_disable",
       "c_disable_except", "c_restart", "c_restart_except", "c_archive", "c_end" >>
CleanupPos(pc) == CHOOSE i \in 1..Len(CleanupOrder) : CleanupOrder[i] = pc
InCleanup == stack # <<>> /\ \E i \in 1..Len(CleanupOrder) : CleanupOrder[i] = Top

\* C20: every cleanup() call goes through its steps in the order stop
\* capture, disable monitor mode, restart network service, archive; it stops
\* the capture only when a handle exists; and it issues the command that
\* disables monitor mode if and only if monitor mode was enabled on the
\* interface earlier in the run, also when the enable command changed the
\* interface but was reported as failed or timed out.
C20_StepsOfCleanup ==
    /\ [][ (InCleanup /\ Len(stack') = Len(stack) /\ stack' # stack /\ sigs' = sigs)
            => CleanupPos(Top') > CleanupPos(Top) ]_vars
    /\ [][ ("terminate" \in issued' /\ "terminate" \notin issued)
            => (monitor_process # "none" /\ Top = "c_stop") ]_vars
    /\ [][ ("airmon-ng stop" \in issued' /\ "airmon-ng stop" \notin issued)
            => ("airmon-ng start" \in issued /\ Top = "c_disable") ]_vars
    /\ []( (stack # <<>> /\ Top = "c_restart" /\ monitorOn)
            => "airmon-ng stop" \in issued )

\* C21: hacknic is set only by a successful enable of monitor mode, from no
\* interface, and is otherwise changed only by cleanup(), which clears it:
\* when a cleanup() call returns, hacknic holds no interface and no capture
\* handle is retained.
C21_HacknicClearedByCleanup ==
    /\ [][ hacknic' # hacknic
            => \/ ( /\ hacknic = "none" /\ stack = <<"enable_monitor_mode">>
                    /\ monitorOn' )
               \/ ( hacknic' = "none" /\ InCleanup ) ]_vars
    /\ [][ (stack # <<>> /\ Top = "c_end" /\ stack' # stack /\ sigs' = sigs)
            => (hacknic' = "none" /\ monitor_process' = "none") ]_vars

\* C22: the target of an accepted index i is the record that the rendering of
\* the same select_target call showed at index i, with 0 <= i <= n-1; the
\* registry does not change from the rendering on, and the target is the
\* same record for the whole attack.
C22_TargetIsShownRecord ==
    /\ [] ( \A f \in hist :
              f[1] = "selected"
              => /\ 0 <= f[2] /\ f[2] < Len(active_wireless_networks)
                 /\ target # <<>>
                 /\ <<"shown", f[2], target[1]>> \in hist
                 /\ target[1] = active_wireless_networks[f[2] + 1] )
    /\ [][ (stack # <<>> /\ stack[1] \in SelectionPcs \cup AttackPcs)
            => active_wireless_networks' = active_wireless_networks ]_vars
    /\ [][ target # <<>> => target' = target ]_vars

\* the second of two listed networks was selected and the attack is running
C22_Witness ==
    /\ stack = <<"atk_injecting">>
    /\ active_wireless_networks = <<PadA45, NetB70>>
    /\ <<"selected", 1>> \in hist
    /\ target = <<NetB70>>

\* the frames of the call stack that are positions inside cleanup()
CleanupFrames ==
    { i \in 1..Len(stack) : \E k \in 1..Len(CleanupOrder) : CleanupOrder[k] = stack[i] }

\* C23: no invocation of cleanup() begins while another one is in progress:
\* at most one cleanup() is on the call stack at any time.
C23_NoNestedCleanup == Cardinality(CleanupFrames) <= 1

====
